---------------------------- MODULE Spec2Model ----------------------------
(***************************************************************************)
(* The CBOR playground of src/src/lib.rs: one page whose handlers read the *)
(* input area and the mode radios, call the codec, write the two output    *)
(* panes and persist to the browser's local storage and to a permalink.    *)
(*                                                                         *)
(* Texts are sequences of one-character strings, so that the JSON and the  *)
(* URL encodings are modelled character by character.                      *)
(***************************************************************************)
EXTENDS Naturals, Sequences, FiniteSets

VARIABLES
    pc,             \* "start": page loaded, main() not run; "ready": main() returned
    location,       \* the query string of DOCUMENT.location(), still encoded
    storage,        \* WINDOW.local_storage(): the raw item of each key
    storage_up,     \* whether local_storage() yields a storage on this page
    quota,          \* "free", "tight" (a value no longer fits) or "full" (nothing fits)
    INPUT,          \* INPUT.value()
    HEX,            \* text content of #hex
    DIAG,           \* text content of #diag
    AUTO_CHECKBOX,  \* checked flag of input[name=type][value=auto]
    HEX_CHECKBOX,   \* checked flag of input[name=type][value=hex]
    DIAG_CHECKBOX,  \* checked flag of input[name=type][value=diag]
    body_dark,      \* whether DOCUMENT.body().class_list() holds "dark"
    SAVED,          \* the #saved anchor: [href, text]
    last,           \* history: the event that produced this state
    snap,           \* history: (mode, input) read by the last Save click on this page
    origin,         \* history: the snap of the permalink this page was opened from
    parse_arg,      \* SpecParse: the text handed to parse
    parse_res,      \* SpecParse: what parse returned for it under each ParseType
    writes,         \* history: the settings the last handler passed to store, in order
    present,        \* the elements the document holds, by the names of their handles
    wired           \* the listeners registered so far

vars == <<pc, location, storage, storage_up, quota, INPUT, HEX, DIAG, AUTO_CHECKBOX,
          HEX_CHECKBOX, DIAG_CHECKBOX, body_dark, SAVED, last, snap, origin,
          parse_arg, parse_res, writes, present, wired>>

---------------------------------------------------------------------------
(* Bounds *)

\* how many texts of TextPool the user can put into the input area
NumTexts == 5

\* how many texts of FewPool the user can put into it in SpecAll and SpecLink
NumFew == 2

\* longest text handed to parse in SpecParse
MaxLen == 3

\* how many elements the document of SpecMissing can lack
MaxMissing == 1

---------------------------------------------------------------------------
(* Texts *)

Digits == <<"0", "1", "2", "3", "4", "5", "6", "7", "8", "9">>

LowerHex == Digits \o <<"a", "b", "c", "d", "e", "f">>

UpperHex == Digits \o <<"A", "B", "C", "D", "E", "F">>

Range(s) == { s[i] : i \in 1..Len(s) }

IndexIn(s, c) == CHOOSE i \in 1..Len(s) : s[i] = c

IsHexDigit(c) == c \in Range(LowerHex) \cup Range(UpperHex)

\* value 0..15 of a hex digit of either case
HexVal(c) == IF c \in Range(LowerHex) THEN IndexIn(LowerHex, c) - 1
             ELSE IndexIn(UpperHex, c) - 1

ToLower(c) == IF c \in Range(UpperHex) THEN LowerHex[IndexIn(UpperHex, c)] ELSE c

LowerText(t) == [i \in 1..Len(t) |-> ToLower(t[i])]

\* the seed of load_values
Seed == <<"b","f","6","3","4","6","7","5","6","e","f","5",
          "6","3","4","1","6","d","7","4","2","1","f","f">>

\* what the user can type or paste; the first NumTexts are used
TextPool == <<
    <<"1", "0">>,                                  \* hex 0x10 and decimal 10
    <<"0", "A">>,                                  \* hex only, upper case
    <<"1", "z">>,                                  \* neither
    <<"7">>,                                       \* diagnostic only
    <<"\"", "\\", " ", "+", "&", "=", "%", "2", "B">>,  \* needs every escape
    <<>>,                                          \* empty input
    <<"1", "7">>,                                  \* hex 0x17 and decimal 17
    <<"2", "0">> >>

Min(a, b) == IF a < b THEN a ELSE b

Texts == { TextPool[i] : i \in 1..Min(NumTexts, Len(TextPool)) }

\* the same texts, the one that needs the escapes first
FewPool == <<TextPool[5], TextPool[1], TextPool[3], TextPool[2], TextPool[4]>>

FewTexts == { FewPool[i] : i \in 1..Min(NumFew, Len(FewPool)) }

\* characters of the texts handed to parse in SpecParse
Alphabet == {"0", "1", "7", "A", "a", "z"}

RECURSIVE SeqsUpTo(_)
SeqsUpTo(n) == IF n = 0 THEN {<<>>}
               ELSE LET shorter == SeqsUpTo(n - 1)
                    IN  shorter \cup { Append(s, c) : s \in {x \in shorter : Len(x) = n - 1},
                                                      c \in Alphabet }

---------------------------------------------------------------------------
(* The codec (crate cbor_diag), restricted to a fragment of CBOR: the       *)
(* unsigned integers 0..23, whose encoding is the initial byte alone, and   *)
(* the seed's map.  Everything else is rejected.                            *)

UInt(n) == [major |-> "uint", n |-> n]

SeedMap == [major |-> "map", n |-> 0]

HexErrorMessage == <<"hex: invalid input">>

DiagErrorMessage == <<"diag: invalid input">>

Ok(v) == [ok |-> TRUE, value |-> v, err |-> <<>>]

Err(msg) == [ok |-> FALSE, value |-> SeedMap, err |-> msg]

parse_hex(value) ==
    IF LowerText(value) = Seed THEN Ok(SeedMap)
    ELSE IF /\ Len(value) = 2
            /\ IsHexDigit(value[1]) /\ IsHexDigit(value[2])
            /\ 16 * HexVal(value[1]) + HexVal(value[2]) <= 23
         THEN Ok(UInt(16 * HexVal(value[1]) + HexVal(value[2])))
         ELSE Err(HexErrorMessage)

IsDigit(c) == c \in Range(Digits)

parse_diag(value) ==
    IF Len(value) = 1 /\ IsDigit(value[1]) THEN Ok(UInt(HexVal(value[1])))
    ELSE IF /\ Len(value) = 2
            /\ IsDigit(value[1]) /\ IsDigit(value[2])
            /\ value[1] # "0"
            /\ 10 * HexVal(value[1]) + HexVal(value[2]) <= 23
         THEN Ok(UInt(10 * HexVal(value[1]) + HexVal(value[2])))
         ELSE Err(DiagErrorMessage)

to_hex(v) == IF v.major = "map" THEN Seed
             ELSE <<LowerHex[(v.n \div 16) + 1], LowerHex[(v.n % 16) + 1]>>

to_diag_pretty(v) ==
    IF v.major = "map"
    THEN <<"{_", "\n", "    \"Fun\": true,", "\n", "    \"Amt\": -2,", "\n", "}">>
    ELSE IF v.n < 10 THEN <<Digits[v.n + 1]>>
    ELSE <<Digits[(v.n \div 10) + 1], Digits[(v.n % 10) + 1]>>

---------------------------------------------------------------------------
(* ParseType and parse *)

ParseType == {"Auto", "Hex", "Diag"}

\* strum::Display / serde, snake_case
TypeName(ty) == CASE ty = "Auto" -> <<"a", "u", "t", "o">>
                  [] ty = "Hex"  -> <<"h", "e", "x">>
                  [] ty = "Diag" -> <<"d", "i", "a", "g">>

\* derive(Debug): the variant's own name
DebugName(ty) == CASE ty = "Auto" -> <<"A", "u", "t", "o">>
                   [] ty = "Hex"  -> <<"H", "e", "x">>
                   [] ty = "Diag" -> <<"D", "i", "a", "g">>

None == [some |-> FALSE]

Some(v) == [some |-> TRUE, v |-> v]

\* strum::EnumString, snake_case: ty.parse().ok()
TypeFromName(name) ==
    IF \E ty \in ParseType : TypeName(ty) = name
    THEN Some(CHOOSE ty \in ParseType : TypeName(ty) = name)
    ELSE None

\* .or_else(|_| ...): the second parser runs only when the first failed
OrElse(first, second) == IF first.ok THEN first ELSE second

\* .map(|v| (v.to_hex(), v.to_diag_pretty())).map_err(Into::into)
Rendered(r) == IF r.ok THEN [ok |-> TRUE, hex |-> to_hex(r.value),
                             diag |-> to_diag_pretty(r.value), err |-> <<>>]
               ELSE [ok |-> FALSE, hex |-> <<>>, diag |-> <<>>, err |-> r.err]

\* mutant: Auto never falls back to the diagnostic parser
parse_auto_hex_only(ty, value) ==
    CASE ty = "Auto" -> Rendered(parse_hex(value))
      [] ty = "Hex"  -> Rendered(parse_hex(value))
      [] ty = "Diag" -> Rendered(parse_diag(value))

\* mutant: Auto tries the diagnostic parser first
parse_auto_diag_first(ty, value) ==
    CASE ty = "Auto" -> Rendered(OrElse(parse_diag(value), parse_hex(value)))
      [] ty = "Hex"  -> Rendered(parse_hex(value))
      [] ty = "Diag" -> Rendered(parse_diag(value))

parse(ty, value) ==
    CASE ty = "Auto" -> Rendered(OrElse(parse_hex(value), parse_diag(value)))
      [] ty = "Hex"  -> Rendered(parse_hex(value))
      [] ty = "Diag" -> Rendered(parse_diag(value))

---------------------------------------------------------------------------
(* serde_json: what store writes and load reads *)

Quote == "\""

Backslash == "\\"

RECURSIVE EscapeJson(_)
EscapeJson(t) ==
    IF t = <<>> THEN <<>>
    ELSE (IF Head(t) \in {Quote, Backslash} THEN <<Backslash, Head(t)>> ELSE <<Head(t)>>)
         \o EscapeJson(Tail(t))

\* the inside of a JSON string back to its text; None on a bare quote or a
\* backslash that escapes neither a quote nor a backslash
RECURSIVE UnescapeJson(_)
UnescapeJson(t) ==
    IF t = <<>> THEN Some(<<>>)
    ELSE IF Head(t) = Quote THEN None
    ELSE IF Head(t) = Backslash
         THEN IF Len(t) >= 2 /\ t[2] \in {Quote, Backslash}
              THEN LET rest == UnescapeJson(SubSeq(t, 3, Len(t)))
                   IN  IF rest.some THEN Some(<<t[2]>> \o rest.v) ELSE None
              ELSE None
    ELSE LET rest == UnescapeJson(Tail(t))
         IN  IF rest.some THEN Some(<<Head(t)>> \o rest.v) ELSE None

\* serde_json::to_string(&String)
json_of_string(t) == <<Quote>> \o EscapeJson(t) \o <<Quote>>

\* serde_json::from_str::<String>
string_of_json(item) ==
    IF Len(item) >= 2 /\ item[1] = Quote /\ item[Len(item)] = Quote
    THEN UnescapeJson(SubSeq(item, 2, Len(item) - 1))
    ELSE None

\* serde_json::to_string(&ParseType), rename_all = "snake_case"
json_of_type(ty) == json_of_string(TypeName(ty))

\* serde_json::from_str::<ParseType>: an unknown variant is an error
type_of_json(item) ==
    LET name == string_of_json(item)
    IN  IF name.some THEN TypeFromName(name.v) ELSE None

JsonTrue == <<"t", "r", "u", "e">>

JsonFalse == <<"f", "a", "l", "s", "e">>

\* serde_json::to_string(&bool)
json_of_bool(b) == IF b THEN JsonTrue ELSE JsonFalse

\* serde_json::from_str::<bool>
bool_of_json(item) ==
    IF item = JsonTrue THEN Some(TRUE)
    ELSE IF item = JsonFalse THEN Some(FALSE)
    ELSE None

---------------------------------------------------------------------------
(* url: form_urlencoded, as query_pairs_mut and query_pairs use it *)

Letters == {"a","b","c","d","e","f","g","h","i","j","k","l","m",
            "n","o","p","q","r","s","t","u","v","w","x","y","z",
            "A","B","C","D","E","F","G","H","I","J","K","L","M",
            "N","O","P","Q","R","S","T","U","V","W","X","Y","Z"}

\* bytes that byte_serialize leaves as they are
Unreserved == Letters \cup Range(Digits) \cup {"*", "-", ".", "_"}

\* the other characters the model's texts hold, with their byte in hex
PercentCodes == << <<Quote, "2", "2">>, <<"%", "2", "5">>, <<"&", "2", "6">>,
                   <<"+", "2", "B">>, <<"=", "3", "D">>, <<Backslash, "5", "C">> >>

PercentOf(c) == LET e == CHOOSE x \in Range(PercentCodes) : x[1] = c
                IN  <<"%", e[2], e[3]>>

\* form_urlencoded::byte_serialize
RECURSIVE byte_serialize(_)
byte_serialize(t) ==
    IF t = <<>> THEN <<>>
    ELSE (IF Head(t) \in Unreserved THEN <<Head(t)>>
          ELSE IF Head(t) = " " THEN <<"+">>
          ELSE PercentOf(Head(t)))
         \o byte_serialize(Tail(t))

IsCode(h, l) == \E x \in Range(PercentCodes) : ToLower(x[2]) = ToLower(h) /\ ToLower(x[3]) = ToLower(l)

CharOfCode(h, l) ==
    (CHOOSE x \in Range(PercentCodes) : ToLower(x[2]) = ToLower(h) /\ ToLower(x[3]) = ToLower(l))[1]

\* form_urlencoded's decode: '+' is a space, %XX is the byte XX, and a '%'
\* not followed by two hex digits stays as it is.  Bytes outside
\* PercentCodes do not occur percent-encoded in the model's URLs.
RECURSIVE decode(_)
decode(t) ==
    IF t = <<>> THEN <<>>
    ELSE IF Head(t) = "+" THEN <<" ">> \o decode(Tail(t))
    ELSE IF Head(t) = "%" /\ Len(t) >= 3 /\ IsCode(t[2], t[3])
         THEN <<CharOfCode(t[2], t[3])>> \o decode(SubSeq(t, 4, Len(t)))
    ELSE <<Head(t)>> \o decode(Tail(t))

FirstIndex(t, c) == CHOOSE i \in 1..Len(t) : t[i] = c /\ \A j \in 1..(i - 1) : t[j] # c

RECURSIVE SplitOn(_, _)
SplitOn(t, c) ==
    IF c \in Range(t)
    THEN LET i == FirstIndex(t, c)
         IN  <<SubSeq(t, 1, i - 1)>> \o SplitOn(SubSeq(t, i + 1, Len(t)), c)
    ELSE <<t>>

\* one "name=value" piece of a query, decoded
PairOf(piece) ==
    IF "=" \in Range(piece)
    THEN LET i == FirstIndex(piece, "=")
         IN  <<decode(SubSeq(piece, 1, i - 1)), decode(SubSeq(piece, i + 1, Len(piece)))>>
    ELSE <<decode(piece), <<>>>>

\* url.query_pairs(): the pieces between '&', empty pieces skipped
query_pairs(query) ==
    LET pieces == SelectSeq(SplitOn(query, "&"), LAMBDA p : p # <<>>)
    IN  [i \in 1..Len(pieces) |-> PairOf(pieces[i])]

\* params.get(name) on the HashMap collected from query_pairs: the last
\* pair of that name wins
params_get(query, name) ==
    LET pairs == query_pairs(query)
        hits  == { i \in 1..Len(pairs) : pairs[i][1] = name }
    IN  IF hits = {} THEN None
        ELSE Some(pairs[CHOOSE i \in hits : \A j \in hits : j <= i][2])

\* query_pairs_mut().append_pair(name, value)
append_pair(query, name, value) ==
    (IF query = <<>> THEN <<>> ELSE query \o <<"&">>)
    \o byte_serialize(name) \o <<"=">> \o byte_serialize(value)

KeyType == <<"t", "y", "p", "e">>

KeyValue == <<"v", "a", "l", "u", "e">>

---------------------------------------------------------------------------
(* The page: the DOM handles of lib.rs and the local storage, as one record *)

NoItem == <<"(no item)">>

NoHref == <<"(no href)">>

PermalinkLabel == <<"Permalink to the playground">>

\* the elements lib.rs looks up, by the names of their handles
Elements == {"INPUT", "SUBMIT", "HEX", "DIAG", "SAVE", "DARK", "SAVED", "COPY_BUTTON",
             "COPIED", "AUTO_CHECKBOX", "HEX_CHECKBOX", "DIAG_CHECKBOX"}

\* the listeners init_listeners registers: element and event
Listeners == {<<"DARK", "click">>, <<"SUBMIT", "click">>, <<"SAVE", "click">>,
              <<"INPUT", "keydown">>, <<"INPUT", "keyup">>}

World == [INPUT |-> INPUT, HEX |-> HEX, DIAG |-> DIAG,
          AUTO_CHECKBOX |-> AUTO_CHECKBOX, HEX_CHECKBOX |-> HEX_CHECKBOX,
          DIAG_CHECKBOX |-> DIAG_CHECKBOX, body_dark |-> body_dark,
          SAVED |-> SAVED, storage |-> storage, writes |-> <<>>]

Apply(d) ==
    /\ INPUT' = d.INPUT
    /\ HEX' = d.HEX
    /\ DIAG' = d.DIAG
    /\ AUTO_CHECKBOX' = d.AUTO_CHECKBOX
    /\ HEX_CHECKBOX' = d.HEX_CHECKBOX
    /\ DIAG_CHECKBOX' = d.DIAG_CHECKBOX
    /\ body_dark' = d.body_dark
    /\ SAVED' = d.SAVED
    /\ storage' = d.storage
    /\ writes' = d.writes

\* what a freshly loaded document holds before main() runs
FreshPage(st) ==
    [INPUT |-> <<>>, HEX |-> <<>>, DIAG |-> <<>>,
     AUTO_CHECKBOX |-> FALSE, HEX_CHECKBOX |-> FALSE, DIAG_CHECKBOX |-> FALSE,
     body_dark |-> FALSE, SAVED |-> [href |-> NoHref, text |-> <<>>],
     storage |-> st, writes |-> <<>>]

\* the persistence host: whether local_storage() yields a storage, and the
\* keys whose set_item fails for lack of room
Env(up, q) == [up |-> up,
               full |-> CASE q = "free"  -> {}
                          [] q = "tight" -> {"value"}
                          [] q = "full"  -> {"type", "value", "dark"}]

Host == Env(storage_up, quota)

\* a radio of the group is checked: the browser unchecks the other two
switch_type(d, ty) ==
    [d EXCEPT !.AUTO_CHECKBOX = (ty = "Auto"),
              !.HEX_CHECKBOX  = (ty = "Hex"),
              !.DIAG_CHECKBOX = (ty = "Diag")]

get_type(d) ==
    IF d.AUTO_CHECKBOX THEN "Auto"
    ELSE IF d.HEX_CHECKBOX THEN "Hex"
    ELSE IF d.DIAG_CHECKBOX THEN "Diag"
    ELSE "Auto"

\* mutant: a failed write is reported in the hex pane
store_alerting(d, env, setting, item) ==
    IF env.up /\ setting \notin env.full
    THEN [d EXCEPT !.storage[setting] = item, !.writes = Append(@, setting)]
    ELSE [d EXCEPT !.HEX = <<"failed storing">>, !.writes = Append(@, setting)]

\* store(setting, value), item being serde_json::to_string(value): an error
\* of inner() is logged and nothing else happens
store(d, env, setting, item) ==
    IF env.up /\ setting \notin env.full
    THEN [d EXCEPT !.storage[setting] = item, !.writes = Append(@, setting)]
    ELSE [d EXCEPT !.writes = Append(@, setting)]

\* serde_json::from_str::<T>
from_str(T, item) == CASE T = "bool"      -> bool_of_json(item)
                       [] T = "ParseType" -> type_of_json(item)
                       [] T = "String"    -> string_of_json(item)

\* load::<T>(setting)
load(d, env, setting, T) ==
    IF ~env.up THEN None
    ELSE IF d.storage[setting] = NoItem THEN None
    ELSE from_str(T, d.storage[setting])

\* mutant: the diagnostic pane is not written
try_process_hex_only(d, env) ==
    LET r == parse(get_type(d), d.INPUT)
    IN  IF r.ok
        THEN LET shown  == [d EXCEPT !.HEX = r.hex]
                 stored == store(shown, env, "type", json_of_type(get_type(shown)))
             IN  [ok |-> TRUE, err |-> <<>>,
                  d |-> store(stored, env, "value", json_of_string(stored.INPUT))]
        ELSE [ok |-> FALSE, err |-> r.err, d |-> d]

\* mutant: the pair is persisted before it is parsed
try_process_store_first(d, env) ==
    LET stored == store(d, env, "type", json_of_type(get_type(d)))
        both   == store(stored, env, "value", json_of_string(stored.INPUT))
        r      == parse(get_type(d), d.INPUT)
    IN  IF r.ok
        THEN [ok |-> TRUE, err |-> <<>>, d |-> [both EXCEPT !.HEX = r.hex, !.DIAG = r.diag]]
        ELSE [ok |-> FALSE, err |-> r.err, d |-> both]

try_process(d, env) ==
    LET r == parse(get_type(d), d.INPUT)
    IN  IF r.ok
        THEN LET shown  == [d EXCEPT !.HEX = r.hex, !.DIAG = r.diag]
                 stored == store(shown, env, "type", json_of_type(get_type(shown)))
             IN  [ok |-> TRUE, err |-> <<>>,
                  d |-> store(stored, env, "value", json_of_string(stored.INPUT))]
        ELSE [ok |-> FALSE, err |-> r.err, d |-> d]

\* mutant: the error path persists nothing
process_unsaved_error(d, env) ==
    LET t == try_process(d, env)
    IN  IF t.ok THEN t.d
        ELSE [d EXCEPT !.HEX = t.err, !.DIAG = <<>>]

\* mutant: the error path leaves the diagnostic pane as it was
process_keeps_diag(d, env) ==
    LET t == try_process(d, env)
    IN  IF t.ok THEN t.d
        ELSE LET shown  == [d EXCEPT !.HEX = t.err]
                 stored == store(shown, env, "type", json_of_type(get_type(shown)))
             IN  store(stored, env, "value", json_of_string(stored.INPUT))

process(d, env) ==
    LET t == try_process(d, env)
    IN  IF t.ok THEN t.d
        ELSE LET shown  == [d EXCEPT !.HEX = t.err, !.DIAG = <<>>]
                 stored == store(shown, env, "type", json_of_type(get_type(shown)))
             IN  store(stored, env, "value", json_of_string(stored.INPUT))

\* mutant: the value before the toggle is persisted
on_dark_click_stale(d, env) ==
    LET toggled == ~d.body_dark
    IN  store([d EXCEPT !.body_dark = toggled], env, "dark", json_of_bool(d.body_dark))

\* mutant: the click also runs a commit parse
on_dark_click_reparsing(d, env) ==
    LET toggled == ~d.body_dark
    IN  process(store([d EXCEPT !.body_dark = toggled], env, "dark", json_of_bool(toggled)), env)

on_dark_click(d, env) ==
    LET toggled == ~d.body_dark
    IN  store([d EXCEPT !.body_dark = toggled], env, "dark", json_of_bool(toggled))

on_submit(d, env) == process(d, env)

\* mutant: the mode is written by its Debug name ("Hex"), not its Display name
on_save_debug_name(d) ==
    LET ty  == get_type(d)
        url == append_pair(append_pair(<<>>, KeyType, DebugName(ty)), KeyValue, d.INPUT)
    IN  [d EXCEPT !.SAVED = [href |-> url, text |-> PermalinkLabel]]

\* mutant: the query of the location is not cleared before the pairs are appended
on_save_keeps_query(d) ==
    LET ty  == get_type(d)
        url == append_pair(append_pair(location, KeyType, TypeName(ty)), KeyValue, d.INPUT)
    IN  [d EXCEPT !.SAVED = [href |-> url, text |-> PermalinkLabel]]

on_save(d) ==
    LET ty  == get_type(d)
        url == append_pair(append_pair(<<>>, KeyType, TypeName(ty)), KeyValue, d.INPUT)
    IN  [d EXCEPT !.SAVED = [href |-> url, text |-> PermalinkLabel]]

EnterKeyCode == 13

KeyEvents == [key_code : {EnterKeyCode, EnterKeyCode + 1}, meta_key : BOOLEAN, ctrl_key : BOOLEAN]

\* mutant: Enter commits whatever the modifiers
on_input_keydown_plain_enter(d, env, e) ==
    IF e.key_code = EnterKeyCode
    THEN process(d, env)
    ELSE d

on_input_keydown(d, env, e) ==
    IF e.key_code = EnterKeyCode /\ (e.meta_key \/ e.ctrl_key)
    THEN process(d, env)
    ELSE d

\* mutant: the keyup handler reports errors like a commit
on_input_keyup_reporting(d, env) == process(d, env)

on_input_keyup(d, env) == try_process(d, env).d

\* the part of init_listeners that acts on the page: the theme class
init_listeners(d, env) ==
    LET dark == load(d, env, "dark", "bool")
    IN  [d EXCEPT !.body_dark = IF dark.some THEN dark.v ELSE FALSE]

\* mutant: the local store is asked before the URL
resolve_store_first(d, env, query) ==
    LET url_ty  == params_get(query, KeyType)
        parsed  == IF url_ty.some THEN TypeFromName(url_ty.v) ELSE None
        url_val == params_get(query, KeyValue)
        st_ty   == load(d, env, "type", "ParseType")
        st_val  == load(d, env, "value", "String")
    IN  IF st_ty.some /\ st_val.some THEN [ty |-> st_ty.v, value |-> st_val.v]
        ELSE IF parsed.some /\ url_val.some THEN [ty |-> parsed.v, value |-> url_val.v]
        ELSE [ty |-> "Hex", value |-> Seed]

\* mutant: the mode and the value are resolved each on its own
resolve_each_on_its_own(d, env, query) ==
    LET url_ty  == params_get(query, KeyType)
        parsed  == IF url_ty.some THEN TypeFromName(url_ty.v) ELSE None
        url_val == params_get(query, KeyValue)
        st_ty   == load(d, env, "type", "ParseType")
        st_val  == load(d, env, "value", "String")
    IN  [ty    |-> IF parsed.some THEN parsed.v ELSE IF st_ty.some THEN st_ty.v ELSE "Hex",
         value |-> IF url_val.some THEN url_val.v ELSE IF st_val.some THEN st_val.v ELSE Seed]

\* the (ty, value) that load_values resolves
resolve(d, env, query) ==
    LET url_ty  == params_get(query, KeyType)
        parsed  == IF url_ty.some THEN TypeFromName(url_ty.v) ELSE None
        url_val == params_get(query, KeyValue)
        st_ty   == load(d, env, "type", "ParseType")
        st_val  == load(d, env, "value", "String")
    IN  IF parsed.some /\ url_val.some THEN [ty |-> parsed.v, value |-> url_val.v]
        ELSE IF st_ty.some /\ st_val.some THEN [ty |-> st_ty.v, value |-> st_val.v]
        ELSE [ty |-> "Hex", value |-> Seed]

\* mutant: the resolved pair is put on the page and not parsed
load_values_unparsed(d, env, query) ==
    LET r == resolve(d, env, query)
    IN  [switch_type(d, r.ty) EXCEPT !.INPUT = r.value]

load_values(d, env, query) ==
    LET r == resolve(d, env, query)
    IN  process([switch_type(d, r.ty) EXCEPT !.INPUT = r.value], env)

main(d, env, query) == load_values(init_listeners(d, env), env, query)

---------------------------------------------------------------------------
(* main on a document that lacks elements.  Each handle of lazy_static! is  *)
(* looked up at its first use, and the unwrap() of a lookup that finds      *)
(* nothing panics there: the call into the module ends, and what it did up  *)
(* to that point stays done.  A run is [d, wired, ok]: the page, the        *)
(* listeners registered, and whether the call is still running.            *)

Running(d) == [d |-> d, wired |-> {}, ok |-> TRUE]

Panic(s) == [s EXCEPT !.ok = FALSE]

\* el.add_event_listener_with_callback(ev, ..).unwrap()
add_event_listener(s, doc, el, ev) ==
    IF ~s.ok THEN s
    ELSE IF el \notin doc THEN Panic(s)
    ELSE [s EXCEPT !.wired = @ \cup {<<el, ev>>}]

\* DOCUMENT.body().unwrap().class_list().toggle_with_force("dark", ..)
toggle_with_force(s, env) ==
    IF ~s.ok THEN s ELSE [s EXCEPT !.d = init_listeners(s.d, env)]

init_listeners_lazy(s, env, doc) ==
    LET dark    == add_event_listener(s, doc, "DARK", "click")
        themed  == toggle_with_force(dark, env)
        submit  == add_event_listener(themed, doc, "SUBMIT", "click")
        save    == add_event_listener(submit, doc, "SAVE", "click")
        keydown == add_event_listener(save, doc, "INPUT", "keydown")
    IN  add_event_listener(keydown, doc, "INPUT", "keyup")

RadioOf(ty) == CASE ty = "Auto" -> "AUTO_CHECKBOX"
                 [] ty = "Hex"  -> "HEX_CHECKBOX"
                 [] ty = "Diag" -> "DIAG_CHECKBOX"

switch_type_lazy(s, doc, ty) ==
    IF ~s.ok THEN s
    ELSE IF RadioOf(ty) \notin doc THEN Panic(s)
    ELSE [s EXCEPT !.d = switch_type(s.d, ty)]

\* INPUT.set_value(&value)
set_value(s, doc, value) ==
    IF ~s.ok THEN s
    ELSE IF "INPUT" \notin doc THEN Panic(s)
    ELSE [s EXCEPT !.d.INPUT = value]

\* the radios get_type looks up: it stops at the first one that is checked
RadiosRead(d) ==
    IF d.AUTO_CHECKBOX THEN {"AUTO_CHECKBOX"}
    ELSE IF d.HEX_CHECKBOX THEN {"AUTO_CHECKBOX", "HEX_CHECKBOX"}
    ELSE {"AUTO_CHECKBOX", "HEX_CHECKBOX", "DIAG_CHECKBOX"}

\* el.set_text_content(..), el being HEX or DIAG
set_text_content(s, doc, el, text) ==
    IF ~s.ok THEN s
    ELSE IF el \notin doc THEN Panic(s)
    ELSE IF el = "HEX" THEN [s EXCEPT !.d.HEX = text]
    ELSE [s EXCEPT !.d.DIAG = text]

\* store("type", &get_type())
store_type(s, env, doc) ==
    IF ~s.ok THEN s
    ELSE IF ~(RadiosRead(s.d) \subseteq doc) THEN Panic(s)
    ELSE [s EXCEPT !.d = store(s.d, env, "type", json_of_type(get_type(s.d)))]

\* store("value", &INPUT.value())
store_value(s, env, doc) ==
    IF ~s.ok THEN s
    ELSE IF "INPUT" \notin doc THEN Panic(s)
    ELSE [s EXCEPT !.d = store(s.d, env, "value", json_of_string(s.d.INPUT))]

\* process, try_process included
process_lazy(s, env, doc) ==
    IF ~s.ok THEN s
    ELSE IF ~(RadiosRead(s.d) \subseteq doc) \/ "INPUT" \notin doc THEN Panic(s)
    ELSE LET r     == parse(get_type(s.d), s.d.INPUT)
             hex   == set_text_content(s, doc, "HEX", IF r.ok THEN r.hex ELSE r.err)
             shown == set_text_content(hex, doc, "DIAG", IF r.ok THEN r.diag ELSE <<>>)
         IN  store_value(store_type(shown, env, doc), env, doc)

load_values_lazy(s, env, doc, query) ==
    LET r == resolve(s.d, env, query)
    IN  process_lazy(set_value(switch_type_lazy(s, doc, r.ty), doc, r.value), env, doc)

main_lazy(d, env, doc, query) ==
    load_values_lazy(init_listeners_lazy(Running(d), env, doc), env, doc, query)

---------------------------------------------------------------------------
(* Where a page starts from: the URL it is opened at and the local store *)

Param(name, value) == name \o <<"=">> \o value

And(a, b) == a \o <<"&">> \o b

StoreOf(ty, value, dark) == [type |-> ty, value |-> value, dark |-> dark]

EmptyStore == StoreOf(NoItem, NoItem, NoItem)

InitQueries == { <<>>, And(Param(KeyType, TypeName("Diag")), Param(KeyValue, <<"7">>)) }

InitStores == { EmptyStore,
                StoreOf(json_of_type("Hex"), json_of_string(<<"0", "A">>), JsonTrue) }

BootQueries ==
    { <<>>,
      And(Param(KeyType, TypeName("Hex")), Param(KeyValue, <<"0", "A">>)),
      And(Param(KeyType, TypeName("Auto")), Param(KeyValue, <<"1", "0">>)),
      And(Param(KeyType, TypeName("Diag")), Param(KeyValue, <<>>)),
      Param(KeyType, TypeName("Diag")),
      Param(KeyValue, <<"7">>),
      And(Param(KeyType, <<"H", "e", "x">>), Param(KeyValue, <<"7">>)),
      And(Param(KeyType, <<"z", "z">>), Param(KeyValue, <<"7">>)),
      And(Param(KeyValue, <<"7">>), Param(KeyType, TypeName("Diag"))),
      And(And(Param(KeyType, TypeName("Hex")), Param(KeyType, <<"z", "z">>)),
          Param(KeyValue, <<"7">>)),
      And(Param(KeyType, TypeName("Hex")),
          Param(KeyValue, <<"%", "2", "2", "+", "%", "2", "b", "%", "z">>)) }

BootStores ==
    { StoreOf(ty, value, dark) :
        ty \in { NoItem, json_of_type("Auto"), json_of_type("Hex"), json_of_type("Diag"),
                 json_of_string(<<"H", "e", "x">>), TypeName("Hex") },
        value \in { NoItem, json_of_string(<<"7">>), json_of_string(TextPool[5]), <<"7">> },
        dark \in { NoItem, JsonTrue, JsonFalse, <<"y", "e", "s">>, json_of_string(JsonTrue) } }

---------------------------------------------------------------------------
(* Events *)

NoSnap == [set |-> FALSE, ty |-> "Auto", value |-> <<>>]

\* history: the event, and for a keydown whether the key was Enter and
\* whether Meta or Ctrl was held
Event(ev) == [ev |-> ev, enter |-> FALSE, modifier |-> FALSE]

KeyEvent(e) == [ev |-> "keydown", enter |-> (e.key_code = EnterKeyCode),
                modifier |-> (e.meta_key \/ e.ctrl_key)]

Frame == UNCHANGED <<pc, location, storage_up, quota, snap, origin, parse_arg, parse_res,
                     present, wired>>

\* the wasm start function
Main ==
    /\ pc = "start"
    /\ Apply(main(World, Host, location))
    /\ last' = Event("load")
    /\ pc' = "ready"
    /\ wired' = Listeners
    /\ UNCHANGED <<location, storage_up, quota, snap, origin, parse_arg, parse_res, present>>

\* the user changes the text of the input area (typing, pasting, cutting)
UserEditOf(texts) ==
    /\ pc = "ready"
    /\ \E t \in texts :
          /\ t # INPUT
          /\ Apply([World EXCEPT !.INPUT = t])
    /\ last' = Event("edit")
    /\ Frame

UserEdit == UserEditOf(Texts)

UserEditFew == UserEditOf(FewTexts)

\* the user picks another radio; lib.rs listens to no event of the radios
RadioSelect ==
    /\ pc = "ready"
    /\ \E ty \in ParseType :
          /\ ty # get_type(World)
          /\ Apply(switch_type(World, ty))
    /\ last' = Event("radio")
    /\ Frame

SubmitClick ==
    /\ pc = "ready"
    /\ Apply(on_submit(World, Host))
    /\ last' = Event("submit")
    /\ Frame

InputKeydown ==
    /\ pc = "ready"
    /\ \E e \in KeyEvents :
          /\ Apply(on_input_keydown(World, Host, e))
          /\ last' = KeyEvent(e)
    /\ Frame

InputKeyup ==
    /\ pc = "ready"
    /\ Apply(on_input_keyup(World, Host))
    /\ last' = Event("keyup")
    /\ Frame

SaveClick ==
    /\ pc = "ready"
    /\ Apply(on_save(World))
    /\ snap' = [set |-> TRUE, ty |-> get_type(World), value |-> INPUT]
    /\ last' = Event("save")
    /\ UNCHANGED <<pc, location, storage_up, quota, origin, parse_arg, parse_res,
                   present, wired>>

DarkClick ==
    /\ pc = "ready"
    /\ Apply(on_dark_click(World, Host))
    /\ last' = Event("dark")
    /\ Frame

Hosts == { <<TRUE, "free">>, <<TRUE, "tight">>, <<TRUE, "full">>, <<FALSE, "free">> }

\* the permalink is opened: a fresh page at the anchor's href, in this
\* browser or in another one
OpenPermalink ==
    /\ pc = "ready"
    /\ SAVED.href # NoHref
    /\ \E st \in {storage} \cup InitStores :
          Apply(FreshPage(st))
    /\ \E h \in Hosts : storage_up' = h[1] /\ quota' = h[2]
    /\ pc' = "start"
    /\ location' = SAVED.href
    /\ origin' = snap
    /\ snap' = NoSnap
    /\ last' = Event("open")
    /\ wired' = {}
    /\ UNCHANGED <<parse_arg, parse_res, present>>

NotRun == [ty \in ParseType |-> [ok |-> FALSE, hex |-> <<>>, diag |-> <<>>, err |-> <<"(not run)">>]]

NoArg == <<"(no text)">>

InitPageOf(queries, stores, docs) ==
    /\ pc = "start"
    /\ location \in queries
    /\ \E h \in Hosts : storage_up = h[1] /\ quota = h[2]
    /\ \E st \in stores :
          /\ INPUT = FreshPage(st).INPUT
          /\ HEX = FreshPage(st).HEX
          /\ DIAG = FreshPage(st).DIAG
          /\ AUTO_CHECKBOX = FreshPage(st).AUTO_CHECKBOX
          /\ HEX_CHECKBOX = FreshPage(st).HEX_CHECKBOX
          /\ DIAG_CHECKBOX = FreshPage(st).DIAG_CHECKBOX
          /\ body_dark = FreshPage(st).body_dark
          /\ SAVED = FreshPage(st).SAVED
          /\ storage = FreshPage(st).storage
          /\ writes = FreshPage(st).writes
    /\ last = Event("open")
    /\ snap = NoSnap
    /\ origin = NoSnap
    /\ parse_arg = NoArg
    /\ parse_res = NotRun
    /\ present \in docs
    /\ wired = {}

InitPage(queries, stores) == InitPageOf(queries, stores, {Elements})

\* the parse handlers of one page
Init == InitPage(InitQueries, InitStores)

Next ==
    \/ Main
    \/ UserEdit
    \/ RadioSelect
    \/ SubmitClick
    \/ InputKeydown
    \/ InputKeyup

Spec == Init /\ [][Next]_vars

\* every handler of one page
NextAll ==
    \/ Main
    \/ UserEditFew
    \/ RadioSelect
    \/ SubmitClick
    \/ InputKeydown
    \/ InputKeyup
    \/ SaveClick
    \/ DarkClick

SpecAll == Init /\ [][NextAll]_vars

\* the theme alone, from every content of the "dark" key
ThemeStores ==
    { StoreOf(st.type, st.value, dark) :
        st \in InitStores,
        dark \in { NoItem, JsonTrue, JsonFalse, <<"y", "e", "s">>, json_of_string(JsonTrue) } }

InitTheme == InitPage(InitQueries, ThemeStores)

NextTheme == Main \/ DarkClick

SpecTheme == InitTheme /\ [][NextTheme]_vars

\* permalinks: saving one and opening it
NextLink ==
    \/ Main
    \/ UserEditFew
    \/ RadioSelect
    \/ SaveClick
    \/ OpenPermalink

InitLink == InitPage({<<>>}, {EmptyStore})

SpecLink == InitLink /\ [][NextLink]_vars

\* bootstrap alone, from every combination of URL and local store
InitBoot == InitPage(BootQueries, BootStores)

NextBoot == Main

SpecBoot == InitBoot /\ [][NextBoot]_vars

\* parse alone, under every mode, on every text up to MaxLen
InitParse ==
    /\ InitPage({<<>>}, {EmptyStore})
    /\ storage_up = TRUE
    /\ quota = "free"

ParseAny ==
    /\ pc = "start"
    /\ parse_res = NotRun
    /\ \E value \in SeqsUpTo(MaxLen) :
          /\ parse_arg' = value
          /\ parse_res' = [ty \in ParseType |-> parse(ty, value)]
    /\ UNCHANGED <<pc, location, storage, storage_up, quota, INPUT, HEX, DIAG, AUTO_CHECKBOX,
                   HEX_CHECKBOX, DIAG_CHECKBOX, body_dark, SAVED, last, snap, origin,
                   writes, present, wired>>

SpecParse == InitParse /\ [][ParseAny]_vars

\* the wasm start function on a document that may lack elements
MainLazy ==
    /\ pc = "start"
    /\ LET s == main_lazy(World, Host, present, location)
       IN  /\ Apply(s.d)
           /\ wired' = s.wired
           /\ pc' = IF s.ok THEN "ready" ELSE "aborted"
    /\ last' = Event("load")
    /\ UNCHANGED <<location, storage_up, quota, snap, origin, parse_arg, parse_res, present>>

\* the documents that lack at most MaxMissing elements
Documents == { Elements \ m : m \in { x \in SUBSET Elements : Cardinality(x) <= MaxMissing } }

\* a URL whose value does not parse, besides those of InitQueries
MissingQueries ==
    InitQueries \cup { And(Param(KeyType, TypeName("Hex")), Param(KeyValue, <<"1", "z">>)) }

InitMissing == InitPageOf(MissingQueries, InitStores, Documents)

\* bootstrap alone, on every such document
SpecMissing == InitMissing /\ [][MainLazy]_vars

---------------------------------------------------------------------------
(* What the claims speak of *)

\* the mode the radios select
Mode == get_type(World)

\* what a commit parse of (ty, value) displays in the two panes
Display(ty, value) ==
    LET r == parse(ty, value)
    IN  IF r.ok THEN [hex |-> r.hex, diag |-> r.diag]
        ELSE [hex |-> r.err, diag |-> <<>>]

ParsesNow == parse(Mode, INPUT).ok

ErrorMessages == {HexErrorMessage, DiagErrorMessage}

PanesShowCurrent == HEX = Display(Mode, INPUT).hex /\ DIAG = Display(Mode, INPUT).diag

\* the persisted "type" and "value", read back as load reads them
PersistedIsCurrent ==
    /\ type_of_json(storage.type).some
    /\ type_of_json(storage.type).v = Mode
    /\ string_of_json(storage.value).some
    /\ string_of_json(storage.value).v = INPUT

\* the event was Submit or a keydown of Enter with Meta or Ctrl
IsCommitParse(ev) == ev.ev = "submit" \/ (ev.ev = "keydown" /\ ev.enter /\ ev.modifier)

\* the state follows a commit event: bootstrap, a commit parse, or a keyup
\* whose parse succeeded (a keyup changes neither the input nor the mode)
AfterCommit ==
    /\ pc = "ready"
    /\ \/ last.ev = "load"
       \/ IsCommitParse(last)
       \/ last.ev = "keyup" /\ ParsesNow

StoreWorks == storage_up /\ quota = "free"

\* what the user sees
Visible(d) == <<d.HEX, d.DIAG, d.INPUT, get_type(d), d.body_dark, d.SAVED>>

Healthy == Env(TRUE, "free")

---------------------------------------------------------------------------
(* C1. A keyup whose parse fails leaves the hex pane, the diag pane and the  *)
(* persisted "type" and "value" exactly as they were.                       *)

C1_FailedKeyupChangesNothing ==
    [][ (last'.ev = "keyup" /\ ~ParsesNow)
        => /\ HEX' = HEX
           /\ DIAG' = DIAG
           /\ storage'.type = storage.type
           /\ storage'.value = storage.value ]_vars

\* a failed keyup under which an earlier result is still shown and persisted
C1_Witness ==
    /\ last.ev = "keyup"
    /\ ~ParsesNow
    /\ HEX \notin ErrorMessages \cup {<<>>}
    /\ StoreWorks
    /\ string_of_json(storage.value).some
    /\ string_of_json(storage.value).v # INPUT

(* C2. As claimed: after any commit event the keys "type" and "value" equal  *)
(* the selected mode and the text of the input area.                        *)

C2_CommitPersists == AfterCommit => PersistedIsCurrent

(* C2, amended: the same, provided the local store is available and has     *)
(* room for both writes.                                                    *)

C2_CommitPersistsWhenStoreWorks == (AfterCommit /\ StoreWorks) => PersistedIsCurrent

\* a commit of a text that does not parse, persisted all the same
C2_Witness ==
    /\ AfterCommit
    /\ StoreWorks
    /\ last.ev = "submit"
    /\ ~ParsesNow
    /\ INPUT = TextPool[5]

(* C3. Bootstrap resolves the URL pair if the URL's type is auto, hex or    *)
(* diag and the URL has a value; otherwise the stored pair if both keys     *)
(* load; otherwise the seed (Hex, bf6346756ef563416d7421ff).  An unknown    *)
(* type string counts as absent.                                            *)

UrlUsable ==
    /\ params_get(location, KeyType).some
    /\ params_get(location, KeyType).v \in { TypeName(ty) : ty \in ParseType }
    /\ params_get(location, KeyValue).some

StoreUsable ==
    /\ storage_up
    /\ storage.type \in { json_of_string(TypeName(ty)) : ty \in ParseType }
    /\ string_of_json(storage.value).some

C3_BootstrapPrecedence ==
    [][ last'.ev = "load"
        => IF UrlUsable
           THEN /\ TypeName(get_type(World')) = params_get(location, KeyType).v
                /\ INPUT' = params_get(location, KeyValue).v
           ELSE IF StoreUsable
           THEN /\ json_of_type(get_type(World')) = storage.type
                /\ INPUT' = string_of_json(storage.value).v
           ELSE /\ get_type(World') = "Hex"
                /\ INPUT' = Seed ]_vars

\* an unknown type in the URL, and the stored pair used instead
C3_Witness ==
    /\ pc = "ready"
    /\ last.ev = "load"
    /\ params_get(location, KeyType).some
    /\ ~TypeFromName(params_get(location, KeyType).v).some
    /\ params_get(location, KeyValue).some
    /\ Mode = "Auto"
    /\ INPUT = TextPool[5]

(* C4. As claimed: after a radio fires its change event the panes show the   *)
(* parse of the input under the newly selected mode, and "type" and "value" *)
(* are persisted.                                                           *)

C4_RadioChangeCommits ==
    (pc = "ready" /\ last.ev = "radio")
        => /\ PanesShowCurrent
           /\ StoreWorks => PersistedIsCurrent

(* C5. As claimed, for the events lib.rs handles: after every event the     *)
(* panes show the parse of the current input under the current mode, or an  *)
(* error and an empty diag pane when it fails.                              *)

C5_PanesFollowEveryEvent ==
    (pc = "ready" /\ last.ev \in {"load", "submit", "keydown", "keyup", "save", "dark"})
        => /\ PanesShowCurrent
           /\ ~ParsesNow => (HEX \in ErrorMessages /\ DIAG = <<>>)

(* C5, amended: after bootstrap, a commit parse, or a keyup whose parse     *)
(* succeeds, the panes show the parse of the current input under the        *)
(* current mode, or its error and an empty diag pane.                       *)

C5_PanesFollowCommits ==
    AfterCommit
        => /\ PanesShowCurrent
           /\ ~ParsesNow => (HEX \in ErrorMessages /\ DIAG = <<>>)

\* a keyup whose parse succeeded, read as diagnostic notation
C5_Witness ==
    /\ pc = "ready"
    /\ last.ev = "keyup"
    /\ ParsesNow
    /\ Mode = "Diag"
    /\ HEX # INPUT
    /\ DIAG = INPUT

(* C6. A commit parse (Submit, Ctrl/Meta+Enter) that fails writes the        *)
(* codec's error into the hex pane and empties the diag pane, whatever they *)
(* showed; one that succeeds writes the hex form and the pretty form.       *)

C6_CommitParseWritesPanes ==
    [][ IsCommitParse(last')
        => LET r == parse(Mode, INPUT)
           IN  IF r.ok THEN HEX' = r.hex /\ DIAG' = r.diag
                       ELSE HEX' = r.err /\ DIAG' = <<>> ]_vars

\* a failed commit parse by the keyboard
C6_Witness ==
    /\ pc = "ready"
    /\ last.ev = "keydown" /\ last.enter /\ last.modifier
    /\ ~ParsesNow
    /\ HEX \in ErrorMessages
    /\ DIAG = <<>>

(* C7. parse(Auto, x) succeeds if and only if parse(Hex, x) or              *)
(* parse(Diag, x) succeeds.                                                 *)

C7_AutoIffHexOrDiag ==
    parse_arg # NoArg
        => (parse_res["Auto"].ok <=> (parse_res["Hex"].ok \/ parse_res["Diag"].ok))

\* a text only the diagnostic parser accepts
C7_Witness ==
    /\ parse_arg # NoArg
    /\ parse_res["Auto"].ok
    /\ ~parse_res["Hex"].ok
    /\ parse_res["Diag"].ok

(* C8. A page opened at the permalink a Save click produced resolves the    *)
(* mode and the input the click read, whatever its local store holds, and   *)
(* shows the panes of a commit parse of that pair.                          *)

C8_PermalinkRoundTrip ==
    (pc = "ready" /\ last.ev = "load" /\ origin.set)
        => /\ Mode = origin.ty
           /\ INPUT = origin.value
           /\ HEX = Display(origin.ty, origin.value).hex
           /\ DIAG = Display(origin.ty, origin.value).diag

\* the text that needs every escape, restored in a browser whose store held
\* another pair
C8_Witness ==
    /\ pc = "ready"
    /\ last.ev = "load"
    /\ origin.set
    /\ origin.value = TextPool[5]
    /\ origin.ty = "Diag"
    /\ storage.dark = JsonTrue

(* C9. As claimed: in every state after bootstrap the body carries the      *)
(* class "dark" if and only if the persisted "dark" key is true.            *)

C9_ClassIffPersisted == pc = "ready" => (body_dark <=> storage.dark = JsonTrue)

(* C9, amended: the same provided the local store is available and not      *)
(* full; bootstrap gives the class only for a key that loads as true, and   *)
(* each click flips the class and, with such a store, persists the result.  *)

C9_ClassIffPersistedWhenStoreWorks ==
    /\ [](pc = "ready" /\ storage_up /\ quota # "full"
            => (body_dark <=> storage.dark = JsonTrue))
    /\ [][ /\ last'.ev = "load" => body_dark' = (storage_up /\ storage.dark = JsonTrue)
           /\ last'.ev = "dark"
                => /\ body_dark' = ~body_dark
                   /\ (storage_up /\ quota # "full")
                        => storage'.dark = json_of_bool(body_dark') ]_vars

\* the class taken off again by a click, and persisted
C9_Witness ==
    /\ pc = "ready"
    /\ last.ev = "dark"
    /\ storage_up /\ quota # "full"
    /\ ~body_dark
    /\ storage.dark = JsonFalse

(* C10. A failed local-store write is never visible: every handler leaves    *)
(* the panes, the input, the mode, the theme class and the permalink as the *)
(* same handler does with a store that takes every write; and bootstrap      *)
(* with an unavailable store resolves as with an empty one.                 *)

C10_StoreFailuresInvisible ==
    [][ /\ last'.ev = "submit" => Visible(World') = Visible(on_submit(World, Healthy))
        /\ last'.ev = "keyup" => Visible(World') = Visible(on_input_keyup(World, Healthy))
        /\ last'.ev = "keydown"
             => \E e \in KeyEvents :
                   /\ KeyEvent(e) = last'
                   /\ Visible(World') = Visible(on_input_keydown(World, Healthy, e))
        /\ last'.ev = "dark" => Visible(World') = Visible(on_dark_click(World, Healthy))
        /\ last'.ev = "save" => Visible(World') = Visible(on_save(World))
        /\ last'.ev = "load"
             => /\ Visible(World') = Visible(main(World, Env(storage_up, "free"), location))
                /\ ~storage_up
                     => Visible(World')
                          = Visible(main([World EXCEPT !.storage = EmptyStore],
                                         Healthy, location)) ]_vars

\* a commit whose writes were all refused
C10_Witness ==
    /\ pc = "ready"
    /\ last.ev = "submit"
    /\ storage_up /\ quota = "full"
    /\ PanesShowCurrent
    /\ ~PersistedIsCurrent

(* C11. As claimed: when a required element is missing, bootstrap aborts     *)
(* and has done nothing: no listener is wired, the theme class is not       *)
(* applied, no pane is written and nothing is persisted.                    *)

Required == Elements \ {"COPY_BUTTON", "COPIED"}

C11_MissingElementAbortsAll ==
    [][ (last'.ev = "load" /\ ~(Required \subseteq present))
        => /\ pc' = "aborted"
           /\ wired' = {}
           /\ body_dark' = body_dark
           /\ HEX' = HEX /\ DIAG' = DIAG
           /\ storage' = storage ]_vars

(* C12. As claimed: after bootstrap the selected radio is the resolved mode, *)
(* the input area holds the resolved value, the panes show the commit parse *)
(* of that pair (for the seed: Hex, and the seed in the input and in the    *)
(* hex pane), and one commit parse has run, so that "type" and "value"      *)
(* equal the resolved pair.                                                 *)

OneRadioChecked(d, ty) ==
    /\ d.AUTO_CHECKBOX = (ty = "Auto")
    /\ d.HEX_CHECKBOX = (ty = "Hex")
    /\ d.DIAG_CHECKBOX = (ty = "Diag")

\* the page d shows the pair r, parsed once
BootstrapShows(d, r) ==
    /\ OneRadioChecked(d, r.ty)
    /\ d.INPUT = r.value
    /\ d.HEX = Display(r.ty, r.value).hex
    /\ d.DIAG = Display(r.ty, r.value).diag
    /\ (r.ty = "Hex" /\ r.value = Seed) => d.HEX = Seed

\* the keys "type" and "value" of the page d, read back as load reads them,
\* are the pair r
KeysHold(d, r) ==
    /\ type_of_json(d.storage.type) = Some(r.ty)
    /\ string_of_json(d.storage.value) = Some(r.value)

C12_BootstrapCommitsResolved ==
    [][ last'.ev = "load"
        => \A r \in {resolve(World, Host, location)}, d \in {World'} :
              /\ BootstrapShows(d, r)
              /\ writes' = <<"type", "value">>
              /\ KeysHold(d, r) ]_vars

(* C12, amended: the same, the keys being equal to the resolved pair        *)
(* provided the local store is available and takes both writes.             *)

C12_BootstrapCommitsResolvedWhenStoreWorks ==
    [][ last'.ev = "load"
        => \A r \in {resolve(World, Host, location)}, d \in {World'} :
              /\ BootstrapShows(d, r)
              /\ writes' = <<"type", "value">>
              /\ StoreWorks => KeysHold(d, r) ]_vars

\* the seed, shown and persisted over a stored pair that did not load
C12_Witness ==
    /\ pc = "ready"
    /\ last.ev = "load"
    /\ OneRadioChecked(World, "Hex")
    /\ INPUT = Seed
    /\ HEX = Seed
    /\ StoreWorks
    /\ storage.type = json_of_type("Hex")
    /\ storage.value = json_of_string(Seed)
    /\ storage.dark = <<"y", "e", "s">>

(* C13. Under Auto the result is the hex parser's whenever the hex parser   *)
(* succeeds, also on a text the diagnostic parser accepts; otherwise it is  *)
(* the diagnostic parser's, and when both fail the error is the diagnostic  *)
(* parser's, not the hex parser's.                                          *)

C13_AutoHexFirst ==
    parse_arg # NoArg
        => /\ parse_res["Hex"].ok => parse_res["Auto"] = parse_res["Hex"]
           /\ ~parse_res["Hex"].ok => parse_res["Auto"] = parse_res["Diag"]
           /\ (~parse_res["Hex"].ok /\ ~parse_res["Diag"].ok)
                => /\ parse_res["Auto"].err = DiagErrorMessage
                   /\ parse_res["Auto"].err # parse_res["Hex"].err

\* a text both parsers accept and read differently: Auto reads it as hex
C13_Witness ==
    /\ parse_arg # NoArg
    /\ parse_res["Hex"].ok
    /\ parse_res["Diag"].ok
    /\ parse_res["Hex"].diag # parse_res["Diag"].diag
    /\ parse_res["Auto"].diag = parse_res["Hex"].diag

(* C14. A keydown on the input area runs a commit parse if and only if the  *)
(* key is Enter and Meta or Ctrl is held; any other keydown, plain Enter    *)
(* included, changes no pane, no persisted key, no mode and no permalink.   *)

C14_KeydownCommitsIffCtrlEnter ==
    [][ last'.ev = "keydown"
        => IF last'.enter /\ last'.modifier
           THEN /\ HEX' = Display(Mode, INPUT).hex
                /\ DIAG' = Display(Mode, INPUT).diag
                /\ writes' = <<"type", "value">>
           ELSE /\ HEX' = HEX /\ DIAG' = DIAG
                /\ storage' = storage
                /\ writes' = <<>>
                /\ AUTO_CHECKBOX' = AUTO_CHECKBOX
                /\ HEX_CHECKBOX' = HEX_CHECKBOX
                /\ DIAG_CHECKBOX' = DIAG_CHECKBOX
                /\ SAVED' = SAVED ]_vars

\* a plain Enter on an edited text: the panes and the keys stay behind
C14_Witness ==
    /\ pc = "ready"
    /\ last.ev = "keydown" /\ last.enter /\ ~last.modifier
    /\ ~PanesShowCurrent
    /\ StoreWorks /\ ~PersistedIsCurrent
    /\ SAVED.href # NoHref

(* C15. Only the keys "type", "value" and "dark" are ever written; "type"   *)
(* and "value" are written only by the parse handlers, both in the same     *)
(* handler; "dark" is written only by the dark-button click, which changes  *)
(* neither "type", "value", the input, the mode nor the panes.              *)

StoreKeys == {"type", "value", "dark"}

ParseEvents == {"load", "submit", "keydown", "keyup"}

C15_WhoWritesWhichKey ==
    [][ /\ Range(writes') \subseteq StoreKeys
        /\ DOMAIN storage' = StoreKeys
        /\ \A k \in StoreKeys : storage'[k] # storage[k] => k \in Range(writes')
        /\ ("type" \in Range(writes') \/ "value" \in Range(writes'))
             => /\ last'.ev \in ParseEvents
                /\ writes' = <<"type", "value">>
        /\ "dark" \in Range(writes') => last'.ev = "dark"
        /\ last'.ev = "dark"
             => /\ writes' = <<"dark">>
                /\ storage'.type = storage.type
                /\ storage'.value = storage.value
                /\ INPUT' = INPUT
                /\ AUTO_CHECKBOX' = AUTO_CHECKBOX
                /\ HEX_CHECKBOX' = HEX_CHECKBOX
                /\ DIAG_CHECKBOX' = DIAG_CHECKBOX
                /\ HEX' = HEX /\ DIAG' = DIAG ]_vars

\* a dark click on an edited text: the theme is persisted, the text is not
C15_Witness ==
    /\ pc = "ready"
    /\ last.ev = "dark"
    /\ writes = <<"dark">>
    /\ StoreWorks
    /\ body_dark
    /\ storage.dark = JsonTrue
    /\ ~PersistedIsCurrent
    /\ ~PanesShowCurrent

(* C16. In every state after bootstrap, with a working local store, the     *)
(* panes are what a commit parse of the persisted ("type", "value") pair    *)
(* displays: they never show the result of another text or mode than the   *)
(* last committed one.                                                      *)

C16_PanesShowPersistedPair ==
    (pc = "ready" /\ StoreWorks)
        => /\ type_of_json(storage.type).some
           /\ string_of_json(storage.value).some
           /\ HEX = Display(type_of_json(storage.type).v, string_of_json(storage.value).v).hex
           /\ DIAG = Display(type_of_json(storage.type).v, string_of_json(storage.value).v).diag

\* a text that does not parse typed over a committed one: the panes and the
\* keys both stay with the committed one
C16_Witness ==
    /\ pc = "ready"
    /\ StoreWorks
    /\ last.ev = "keyup"
    /\ INPUT = TextPool[5]
    /\ string_of_json(storage.value) = Some(TextPool[1])
    /\ type_of_json(storage.type) = Some("Auto")
    /\ HEX = Display("Auto", TextPool[1]).hex
    /\ HEX # Display(Mode, INPUT).hex

(* C17. A Save click sets the anchor's href to the location with its query   *)
(* replaced by exactly type=<mode> then value=<input>, and its text to the  *)
(* fixed label, and changes nothing else: no pane, no key, no parse.  No    *)
(* other event changes the anchor, which keeps the mode and the input of    *)
(* the last Save through later edits and mode changes.                      *)

PairsOf(ty, value) == << <<KeyType, TypeName(ty)>>, <<KeyValue, value>> >>

\* snap is the (mode, input) the last Save click read
C17_SaveOnlySetsPermalink ==
    /\ [](snap.set => /\ query_pairs(SAVED.href) = PairsOf(snap.ty, snap.value)
                      /\ SAVED.text = PermalinkLabel)
    /\ [][ IF last'.ev = "save"
           THEN /\ snap' = [set |-> TRUE, ty |-> Mode, value |-> INPUT]
                /\ HEX' = HEX /\ DIAG' = DIAG
                /\ storage' = storage
                /\ writes' = <<>>
                /\ INPUT' = INPUT
                /\ AUTO_CHECKBOX' = AUTO_CHECKBOX
                /\ HEX_CHECKBOX' = HEX_CHECKBOX
                /\ DIAG_CHECKBOX' = DIAG_CHECKBOX
                /\ body_dark' = body_dark
           ELSE SAVED' = SAVED /\ snap' = snap ]_vars

\* a permalink saved on a page opened with a query, then the text edited
\* and the mode changed: the anchor still holds what the click read
C17_Witness ==
    /\ pc = "ready"
    /\ snap.set
    /\ location # <<>>
    /\ last.ev = "radio"
    /\ snap.value # INPUT
    /\ snap.ty # Mode
    /\ params_get(SAVED.href, KeyValue) = Some(snap.value)
    /\ snap.value = TextPool[5]

(* C18. The pair resolved at bootstrap comes whole from one source: the     *)
(* URL's pair, the stored pair or the seed, never the type of one with the  *)
(* value of another.  A URL with a valid type and no value, and a store     *)
(* holding one of the two keys only, contribute nothing.                    *)

\* the whole pairs the sources offer
SourcePairs ==
    (IF UrlUsable
     THEN {<<TypeFromName(params_get(location, KeyType).v).v, params_get(location, KeyValue).v>>}
     ELSE {})
    \cup (IF StoreUsable
          THEN {<<type_of_json(storage.type).v, string_of_json(storage.value).v>>}
          ELSE {})
    \cup {<<"Hex", Seed>>}

C18_PairFromOneSource ==
    [][ last'.ev = "load"
        => \A pairs \in {SourcePairs}, d \in {World'} :
              <<get_type(d), d.INPUT>> \in pairs ]_vars

\* a URL with a type and no value, over a stored pair of another type: the
\* stored pair is resolved whole
C18_Witness ==
    /\ pc = "ready"
    /\ last.ev = "load"
    /\ params_get(location, KeyType) = Some(TypeName("Diag"))
    /\ ~params_get(location, KeyValue).some
    /\ storage_up
    /\ Mode = "Hex"
    /\ INPUT = <<"7">>

===========================================================================
